---------------------------- MODULE Spec2Model ----------------------------
(***************************************************************************)
(* A model of the geotiles crate: Hexasphere::new and the geometry it is   *)
(* built from (Point, Face, Tile, utils::math).                            *)
(*                                                                         *)
(* Numbers.  An f64 coordinate is modelled as an integer count of          *)
(* micro-units (1e-6).  Point::new rounds to 0.001, i.e. to a multiple of  *)
(* Q micro-units, half away from zero as f64::round does.  Point::project  *)
(* does not round; its result is truncated to a micro-unit.  Values that   *)
(* do not fit the model checker's integers (squared magnitudes, dot and    *)
(* cross products) are computed exactly on sequences of limbs.  NaN is a   *)
(* distinguished coordinate.  Angles are compared exactly, so a projection *)
(* that is exactly zero is an angle of 0 or pi.                            *)
(***************************************************************************)
EXTENDS Integers, Sequences, FiniteSets, TLC

\* ------------------------------------------------------------------ bounds
MaxDepth == 3

MaxSeed == 1

\* faces of the icosahedron a sequence of calls on one pool subdivides
MaxPoolFaces == 2

\* ------------------------------------------------------- program constants
\* Point::new: (x * 1000.0).round() / 1000.0
Q == 1000

\* let tao = 1.61803399, in units of 1e-8
TaoE8 == 161803399

\* micro-units per unit
Micro == Q * Q

\* ------------------------------------------------------ rounding, Point
\* round(k0 + num / den), halves away from zero (f64::round); den > 0
RoundSum(k0, num, den) ==
    LET k == k0 + (num \div den)
        rem == num % den
    IN  IF k >= 0
        THEN (IF 2 * rem >= den THEN k + 1 ELSE k)
        ELSE (IF 2 * rem > den THEN k + 1 ELSE k)

RoundHalfAway(num, den) == RoundSum(0, num, den)

\* Point::new applied to one coordinate v (micro-units)
RoundQ(v) == Q * RoundHalfAway(v, Q)

PointNew(x, y, z) == <<RoundQ(x), RoundQ(y), RoundQ(z)>>

\* Point::new applied to (M * Q + r) / den micro-units
RoundMix(M, r, den) == Q * RoundSum(M \div den, (M % den) * Q + r, den * Q)

\* one coordinate of Point::new(a * (1 - t) + b * t) with t = wb / den
Mix2(a, wa, b, wb, den) ==
    RoundMix((a \div Q) * wa + (b \div Q) * wb,
             (a % Q) * wa + (b % Q) * wb, den)

\* one coordinate of Point::new((a + b + c) / 3.0)
Mix3(a, b, c) ==
    RoundMix((a \div Q) + (b \div Q) + (c \div Q), (a % Q) + (b % Q) + (c % Q), 3)

\* a sequence given element by element, as a tuple of values
Vec(f) == f \o <<>>

\* a function given element by element, as a table of values
Table(f) == f @@ <<>>

\* ------------------------------------------------------- wide arithmetic
\* A wide integer is a sequence of limbs, least significant first, all of
\* one sign, each of magnitude below Base, the last one not 0; zero is <<>>.
Base == 10 * 1000

RECURSIVE WNat(_)
WNat(n) == IF n = 0 THEN <<>> ELSE <<n % Base>> \o WNat(n \div Base)

WNeg(w) == Vec([i \in 1..Len(w) |-> 0 - w[i]])

WInt(n) == IF n >= 0 THEN WNat(n) ELSE WNeg(WNat(0 - n))

RECURSIVE WStrip(_)
WStrip(w) ==
    IF w = <<>> THEN w
    ELSE IF w[Len(w)] = 0 THEN WStrip(SubSeq(w, 1, Len(w) - 1)) ELSE w

RECURSIVE WCarry(_, _, _, _)
\* carry through limbs of any size: digits in 0..Base-1 and the carry out
WCarry(raw, i, c, acc) ==
    IF i > Len(raw)
    THEN [digits |-> acc, carry |-> c]
    ELSE WCarry(raw, i + 1, (raw[i] + c) \div Base, Append(acc, (raw[i] + c) % Base))

\* the limbs of a carried number whose carry out is not negative
WCarried(r) == WStrip(r.digits \o WNat(IF r.carry < 0 THEN 0 ELSE r.carry))

\* a number whose carry out is negative is negative: carry its negation
WSigned(raw, r) ==
    IF r.carry < 0 THEN WNeg(WCarried(WCarry(WNeg(raw), 1, 0, <<>>))) ELSE WCarried(r)

WNorm(raw) == WSigned(raw, WCarry(raw, 1, 0, <<>>))

WLimb(w, i) == IF i <= Len(w) THEN w[i] ELSE 0

WAdd(a, b) ==
    WNorm(Vec([i \in 1..(IF Len(a) > Len(b) THEN Len(a) ELSE Len(b)) |->
                  WLimb(a, i) + WLimb(b, i)]))

WSub(a, b) == WAdd(a, WNeg(b))

RECURSIVE WConv(_, _, _, _, _)
WConv(a, b, k, i, hi) ==
    IF i > hi THEN 0 ELSE a[i] * b[k + 1 - i] + WConv(a, b, k, i + 1, hi)

WMul(a, b) ==
    IF a = <<>> \/ b = <<>> THEN <<>>
    ELSE WNorm(Vec([k \in 1..(Len(a) + Len(b) - 1) |->
                      WConv(a, b, k, IF k > Len(b) THEN k + 1 - Len(b) ELSE 1,
                                     IF k < Len(a) THEN k ELSE Len(a))]))

WSign(w) == IF w = <<>> THEN 0 ELSE IF w[Len(w)] > 0 THEN 1 ELSE -1

WLeq(a, b) == WSign(WSub(a, b)) <= 0

WMulInt(a, b) == WMul(WInt(a), WInt(b))

\* ------------------------------------------- exact division on machine ints
\* q * m + r doubled, then b added, for 0 <= r < m and b = qb * m + rb
DoubleAdd(q, r, m, qb, rb) ==
    LET dq == IF r >= m - r THEN 2 * q + 1 ELSE 2 * q
        dr == IF r >= m - r THEN r - (m - r) ELSE r + r
    IN  IF dr >= m - rb
        THEN [q |-> dq + qb + 1, r |-> dr - (m - rb)]
        ELSE [q |-> dq + qb, r |-> dr + rb]

\* powers of 4 below 2^31
Pow4 == Table([i \in 0..15 |-> 4 ^ i])

\* s doubled, and a added when the bit of b is set
AddBit(s, a, m, bit) ==
    DoubleAdd(s.q, s.r, m, IF bit THEN a \div m ELSE 0, IF bit THEN a % m ELSE 0)

\* the two bits of the base-4 digit d of b
AddDigit(s, a, m, d) == AddBit(AddBit(s, a, m, d >= 2), a, m, d % 2 = 1)

RECURSIVE MulDivDigits(_, _, _, _, _)
\* the base-4 digits i, i-1, .., 0 of b, folded into s.q * m + s.r
MulDivDigits(a, b, m, i, s) ==
    IF i < 0 \/ s.r < 0
    THEN s
    ELSE MulDivDigits(a, b, m, i - 1, AddDigit(s, a, m, (b \div Pow4[i]) % 4))

\* [q, r] with a * b = q * m + r and 0 <= r < m, for a >= 0, b >= 0, m > 0
MulDivRem(a, b, m) == MulDivDigits(a, b, m, 15, [q |-> 0, r |-> 0])

\* floor(a * b / m)
MulDiv(a, b, m) == MulDivRem(a, b, m).q

Abs(x) == IF x < 0 THEN 0 - x ELSE x

Sgn(x) == IF x > 0 THEN 1 ELSE IF x < 0 THEN -1 ELSE 0

Max2(a, b) == IF a > b THEN a ELSE b

\* the quotient of the sum of three quotient-and-remainder pairs
SumQuotients(dx, dy, dz, m) ==
    LET c1 == IF dx.r >= m - dy.r THEN 1 ELSE 0
        r1 == IF dx.r >= m - dy.r THEN dx.r - (m - dy.r) ELSE dx.r + dy.r
        c2 == IF r1 >= m - dz.r THEN 1 ELSE 0
    IN  dx.q + dy.q + dz.q + c1 + c2

\* floor((x^2 + y^2 + z^2) / m) for non-negative x, y, z
SumSqDiv(x, y, z, m) == SumQuotients(MulDivRem(x, x, m), MulDivRem(y, y, m), MulDivRem(z, z, m), m)

RECURSIVE NewtonSqrt(_, _, _, _)
RECURSIVE NewtonStep(_, _, _, _, _)
\* integer Newton iteration from a guess m that is not below the root
NewtonSqrt(x, y, z, m) == NewtonStep(x, y, z, m, SumSqDiv(x, y, z, m))

\* q = floor((x^2 + y^2 + z^2) / m): the root is m, or the mean is the next guess
NewtonStep(x, y, z, m, q) ==
    IF q >= m THEN m ELSE NewtonSqrt(x, y, z, q + ((m - q) \div 2))

\* the root from a first guess of twice the largest coordinate
MagnitudeFrom(x, y, z, big) ==
    IF big = 0 THEN 0
    ELSE NewtonSqrt(x, y, z, IF big > 1073741823 THEN 2147483647 ELSE 2 * big)

\* floor(sqrt(x^2 + y^2 + z^2)): (x.powi(2) + y.powi(2) + z.powi(2)).sqrt()
Magnitude(p) ==
    MagnitudeFrom(Abs(p[1]), Abs(p[2]), Abs(p[3]), Max2(Abs(p[1]), Max2(Abs(p[2]), Abs(p[3]))))

\* ------------------------------------------------------------ icosahedron
\* tao * 1000.0 after Point::new
TaoK == Q * RoundHalfAway(TaoE8, 100)

OneK == 1000 * Micro

corners ==
    << <<OneK, TaoK, 0>>,  <<-OneK, TaoK, 0>>,  <<OneK, -TaoK, 0>>,  <<-OneK, -TaoK, 0>>,
       <<0, OneK, TaoK>>,  <<0, -OneK, TaoK>>,  <<0, OneK, -TaoK>>,  <<0, -OneK, -TaoK>>,
       <<TaoK, 0, OneK>>,  <<-TaoK, 0, OneK>>,  <<TaoK, 0, -OneK>>,  <<-TaoK, 0, -OneK>> >>

\* corner numbers as in the source, counted from 0
face_indices ==
    << <<0, 1, 4>>,   <<1, 9, 4>>,   <<4, 9, 5>>,   <<5, 9, 3>>,   <<2, 3, 7>>,
       <<3, 2, 5>>,   <<7, 10, 2>>,  <<0, 8, 10>>,  <<0, 4, 8>>,   <<8, 2, 10>>,
       <<8, 4, 5>>,   <<8, 5, 2>>,   <<1, 0, 6>>,   <<11, 1, 6>>,  <<3, 9, 11>>,
       <<6, 10, 7>>,  <<3, 11, 7>>,  <<11, 6, 7>>,  <<6, 0, 10>>,  <<9, 1, 11>> >>

\* Face::new
FaceNew(id, p1, p2, p3) == [id |-> id, points |-> <<p1, p2, p3>>]

\* the 20 faces of the icosahedron, ids 0..19
faces ==
    Vec([i \in 1..Len(face_indices) |->
            FaceNew(i - 1, corners[face_indices[i][1] + 1],
                           corners[face_indices[i][2] + 1],
                           corners[face_indices[i][3] + 1])])

\* ------------------------------------------------------------ subdivision
\* get_or_insert_point without points.insert
get_or_insert_pointNoStore(point, pts) ==
    IF point \in DOMAIN pts
    THEN [point |-> pts[point], points |-> pts]
    ELSE [point |-> point, points |-> pts]

\* get_or_insert_point: the pooled point and the pool after the call
get_or_insert_point(point, pts) ==
    IF point \in DOMAIN pts
    THEN [point |-> pts[point], points |-> pts]
    ELSE [point |-> point, points |-> pts @@ (point :> point)]

\* the i-th interior point of subdivide_edge, t = i / count
EdgePoint(p1, p2, i, count) ==
    <<Mix2(p1[1], count - i, p2[1], i, count),
      Mix2(p1[2], count - i, p2[2], i, count),
      Mix2(p1[3], count - i, p2[3], i, count)>>

\* the points subdivide_edge visits, in order: p1, the interior points, p2
EdgeVisits(p1, p2, count) ==
    <<p1>> \o [i \in 1..(count - 1) |-> EdgePoint(p1, p2, i, count)] \o <<p2>>

RECURSIVE PoolAll(_, _, _)
\* get_or_insert_point over a sequence of points; acc collects the results
PoolAll(visits, pts, acc) ==
    IF visits = <<>>
    THEN [result |-> acc, points |-> pts]
    ELSE LET g == get_or_insert_point(Head(visits), pts)
         IN  PoolAll(Tail(visits), g.points, Append(acc, g.point))

subdivide_edge(p1, p2, count, pts) == PoolAll(EdgeVisits(p1, p2, count), pts, <<>>)

\* the inner loop without `*face_id += 1`
RowFacesSameId(prev_row, current_row, i, fid) ==
  Vec(
    [k \in 1..(2 * i - 1) |->
        IF k % 2 = 1 /\ k > 1
        THEN FaceNew(fid, prev_row[(k - 1) \div 2],
                     prev_row[((k - 1) \div 2) + 1], current_row[((k - 1) \div 2) + 1])
        ELSE FaceNew(fid, prev_row[(k \div 2) + 1],
                     current_row[(k \div 2) + 1], current_row[(k \div 2) + 2])])

\* the inner loop with the face of the `if j > 0` branch built from the
\* points of the other face
RowFacesUpOnly(prev_row, current_row, i, fid) ==
  Vec(
    [k \in 1..(2 * i - 1) |->
        FaceNew(fid + k - 1, prev_row[(k \div 2) + 1],
                current_row[(k \div 2) + 1], current_row[(k \div 2) + 2])])

\* the faces created between prev_row and current_row for row i, ids from fid
RowFaces(prev_row, current_row, i, fid) ==
  Vec(
    [k \in 1..(2 * i - 1) |->
        IF k = 1
        THEN FaceNew(fid, prev_row[1], current_row[1], current_row[2])
        ELSE IF k % 2 = 0
             THEN FaceNew(fid + k - 1, prev_row[(k \div 2) + 1],
                          current_row[(k \div 2) + 1], current_row[(k \div 2) + 2])
             ELSE FaceNew(fid + k - 1, prev_row[(k - 1) \div 2],
                          prev_row[((k - 1) \div 2) + 1], current_row[((k - 1) \div 2) + 1])])

RECURSIVE SubdivideRows(_, _, _, _, _, _, _, _)
\* the loop `for i in 1..=num_divisions` of subdivide_face
SubdivideRows(i, n, left, right, prev_row, pts, fid, acc) ==
    IF i > n
    THEN [faces |-> acc, points |-> pts, face_id |-> fid]
    ELSE LET cur == subdivide_edge(left[i + 1], right[i + 1], i, pts)
             row == RowFaces(prev_row, cur.result, i, fid)
         IN  SubdivideRows(i + 1, n, left, right, cur.result, cur.points,
                           fid + Len(row), acc \o row)

\* subdivide_face without its base case
subdivide_faceNoBase(face, n, pts, fid) ==
    LET left == subdivide_edge(face.points[1], face.points[2], n, pts)
        right == subdivide_edge(face.points[1], face.points[3], n, left.points)
    IN  SubdivideRows(1, n, left.result, right.result, <<face.points[1]>>,
                      right.points, fid, <<>>)

subdivide_face(face, n, pts, fid) ==
    IF n = 0
    THEN [faces |-> <<face>>, points |-> pts, face_id |-> fid]
    ELSE LET left == subdivide_edge(face.points[1], face.points[2], n, pts)
             right == subdivide_edge(face.points[1], face.points[3], n, left.points)
         IN  SubdivideRows(1, n, left.result, right.result, <<face.points[1]>>,
                           right.points, fid, <<>>)

\* ------------------------------------------------------------- projection
\* the coordinate of a point whose coordinates are NaN
NaN == 0 - 2147483647

NaNPoint == <<NaN, NaN, NaN>>

Clamp(v, lo, hi) == IF v < lo THEN lo ELSE IF v > hi THEN hi ELSE v

\* the factor percent of Point::project, applied to a magnitude
ScalePercent(full, percent) == IF percent = 100 THEN full ELSE MulDiv(full, percent, 100)

\* one coordinate of Point::project: x * (radius / mag) * percent
ProjectCoord(x, r, mag, percent) == Sgn(x) * ScalePercent(MulDiv(Abs(x), r, mag), percent)

\* Point::project; percent in hundredths.  A zero magnitude gives
\* ratio = radius / 0.0 and 0.0 * ratio = NaN in every coordinate.
ProjectBy(p, r, mag, percent) ==
    IF mag = 0
    THEN NaNPoint
    ELSE <<ProjectCoord(p[1], r, mag, percent), ProjectCoord(p[2], r, mag, percent),
           ProjectCoord(p[3], r, mag, percent)>>

\* let mag = (x^2 + y^2 + z^2).sqrt(); let percent = percent.clamp(0.0, 1.0)
Project(p, r, percent) == ProjectBy(p, r, Magnitude(p), Clamp(percent, 0, 100))

WSumSq(p) == WAdd(WAdd(WMulInt(p[1], p[1]), WMulInt(p[2], p[2])), WMulInt(p[3], p[3]))

RECURSIVE HalfSteps(_, _, _)
\* the largest t <= t0 with t * sqrt(S) <= 2000 * x, S the squared magnitude
HalfSteps(t0, x, S) ==
    IF t0 = 0 \/ WLeq(WMul(WInt(t0 * t0), S), WMul(WInt(4 * Micro), WMulInt(x, x)))
    THEN t0
    ELSE HalfSteps(t0 - 1, x, S)

\* floor(2000 * x / |p|), from d = floor(2000 * x / mag) with its remainder
HalfCount(d, x, p) == IF d.q <= d.r THEN d.q ELSE HalfSteps(d.q, x, WSumSq(p))

\* (x / mag * 1000.0).round() for x >= 0, as a count of thousandths
UnitCoord(x, mag, p) == (HalfCount(MulDivRem(x, 2000, mag), x, p) + 1) \div 2

\* a point of magnitude mag divided by it
NormalizedBy(p, mag) ==
    IF mag = 0
    THEN NaNPoint
    ELSE <<Sgn(p[1]) * Q * UnitCoord(Abs(p[1]), mag, p),
           Sgn(p[2]) * Q * UnitCoord(Abs(p[2]), mag, p),
           Sgn(p[3]) * Q * UnitCoord(Abs(p[3]), mag, p)>>

\* Point::new(p.x / mag, p.y / mag, p.z / mag) of find_projected_point
Normalized(p) == NormalizedBy(p, IF p = NaNPoint THEN 0 ELSE Magnitude(p))

Sq(v) == v * v

\* diff < 0.001 of find_projected_point, on the two normalized points
DiffBelowTolerance(orig_norm, proj_norm) ==
    /\ orig_norm # NaNPoint
    /\ proj_norm # NaNPoint
    /\ Sq((orig_norm[1] - proj_norm[1]) \div Q) + Sq((orig_norm[2] - proj_norm[2]) \div Q)
         + Sq((orig_norm[3] - proj_norm[3]) \div Q) < 1

\* Option::None
None == <<>>

\* the values find_projected_point can return: the first key in iteration
\* order that passes the test, and the iteration order of a HashMap is any
find_projected_point(original, projected, norm) ==
    LET hits == {q \in DOMAIN projected : DiffBelowTolerance(norm[original], norm[q])}
    IN  IF hits = {} THEN {None} ELSE hits

\* point_to_faces.insert(key, vec![idx]) in place of the entry API: the face
\* replaces the ones the key had
PushFaceOverwrite(ptf, key, idx) ==
    IF key = None THEN ptf
    ELSE IF \E i \in 1..Len(ptf) : ptf[i].point = key
         THEN Vec([i \in 1..Len(ptf) |->
                      IF ptf[i].point = key THEN [ptf[i] EXCEPT !.faces = <<idx>>] ELSE ptf[i]])
         ELSE Append(ptf, [point |-> key, faces |-> <<idx>>])

\* point_to_faces.entry(key).or_insert_with(Vec::new).push(idx); the map is
\* kept as its entries in insertion order
PushFace(ptf, key, idx) ==
    IF key = None THEN ptf
    ELSE IF \E i \in 1..Len(ptf) : ptf[i].point = key
         THEN Vec([i \in 1..Len(ptf) |->
                      IF ptf[i].point = key
                      THEN [ptf[i] EXCEPT !.faces = Append(@, idx)]
                      ELSE ptf[i]])
         ELSE Append(ptf, [point |-> key, faces |-> <<idx>>])

\* ---------------------------------------------------------------- faces
\* Face::get_centroid: Point::new of the mean of the three vertices
get_centroid(face) ==
    <<Mix3(face.points[1][1], face.points[2][1], face.points[3][1]),
      Mix3(face.points[1][2], face.points[2][2], face.points[3][2]),
      Mix3(face.points[1][3], face.points[2][3], face.points[3][3])>>

\* Face::calculate_centroid, which sort_faces_around_point calls
calculate_centroid(face) == get_centroid(face)

RangeOf(f) == {f[x] : x \in DOMAIN f}

\* Face::get_other_points
get_other_points(face, point) ==
    SelectSeq(face.points, LAMBDA q : q # point)

\* Face::is_adjacent_to: exactly two pairs of equal points
is_adjacent_to(face, face2) ==
    Cardinality({pair \in (1..3) \X (1..3) :
                    face.points[pair[1]] = face2.points[pair[2]]}) = 2

\* Display for Point: "{x},{y},{z}"
PointToString(p) == ToString(p[1]) \o "," \o ToString(p[2]) \o "," \o ToString(p[3])

\* ------------------------------------------------------- angular sorting
Diff(a, b) == <<a[1] - b[1], a[2] - b[2], a[3] - b[3]>>

WVec(v) == <<WInt(v[1]), WInt(v[2]), WInt(v[3])>>

\* Vector3::dot of an integer vector and a wide vector
WDot(d, w) ==
    WAdd(WAdd(WMul(WInt(d[1]), w[1]), WMul(WInt(d[2]), w[2])), WMul(WInt(d[3]), w[3]))

\* Vector3::cross
WCross(a, b) ==
    <<WSub(WMulInt(a[2], b[3]), WMulInt(a[3], b[2])),
      WSub(WMulInt(a[3], b[1]), WMulInt(a[1], b[3])),
      WSub(WMulInt(a[1], b[2]), WMulInt(a[2], b[1]))>>

\* x_component and y_component of one face, each up to a positive factor
\* that is the same for every face of the star (the normalizations)
FaceAngle(face, point, right, forward) ==
    [x |-> WDot(Diff(calculate_centroid(face), point), right),
     y |-> WDot(Diff(calculate_centroid(face), point), forward)]

\* where atan2(y, x) lies: 0 below the x axis, 1 at angle 0, 2 above, 3 at pi
AngleClass(k) ==
    IF WSign(k.y) < 0 THEN 0
    ELSE IF WSign(k.y) > 0 THEN 2
    ELSE IF WSign(k.x) >= 0 THEN 1 ELSE 3

\* a.1.partial_cmp(&b.1) == Less
AngleLess(a, b) ==
    IF AngleClass(a) # AngleClass(b) THEN AngleClass(a) < AngleClass(b)
    ELSE IF AngleClass(a) \in {1, 3} THEN FALSE
    ELSE WSign(WSub(WMul(a.x, b.y), WMul(a.y, b.x))) > 0

RECURSIVE InsertPos(_, _, _, _)
\* how many of sorted[1..j] stay in front of element k
InsertPos(sorted, j, k, keys) ==
    IF j > 0 /\ AngleLess(keys[k], keys[sorted[j]])
    THEN InsertPos(sorted, j - 1, k, keys)
    ELSE j

RECURSIVE SortFrom(_, _, _)
\* the stable sort_by, as insertion of elements k, k+1, ..
SortFrom(sorted, k, keys) ==
    IF k > Len(keys) THEN sorted
    ELSE LET j == InsertPos(sorted, Len(sorted), k, keys)
         IN  SortFrom(SubSeq(sorted, 1, j) \o <<k>> \o SubSeq(sorted, j + 1, Len(sorted)),
                      k + 1, keys)

\* sort_faces_around_point without the early return for up to two faces
sort_faces_around_pointAlways(fs, point) ==
    LET reference == Diff(calculate_centroid(fs[1]), point)
        right == WVec(reference)
        forward == WCross(point, reference)
        face_angles ==
            Vec([i \in 1..Len(fs) |-> FaceAngle(fs[i], point, right, forward)])
        order == SortFrom(<<>>, 1, face_angles)
    IN  Vec([i \in 1..Len(fs) |-> fs[order[i]]])

sort_faces_around_point(fs, point) ==
    IF Len(fs) <= 2 THEN fs
    ELSE LET reference == Diff(calculate_centroid(fs[1]), point)
             right == WVec(reference)
             forward == WCross(point, reference)
             face_angles ==
                 Vec([i \in 1..Len(fs) |-> FaceAngle(fs[i], point, right, forward)])
             order == SortFrom(<<>>, 1, face_angles)
         IN  Vec([i \in 1..Len(fs) |-> fs[order[i]]])

\* ------------------------------------------------------------------ tiles
\* hex_size.clamp(0.01, 1.0), in hundredths
MinHexSize == 1

MaxHexSize == 100

\* Point::segment with the two weights exchanged
SegmentFromOther(p, other, percent) ==
    <<Mix2(p[1], Clamp(percent, 0, 100), other[1], 100 - Clamp(percent, 0, 100), 100),
      Mix2(p[2], Clamp(percent, 0, 100), other[2], 100 - Clamp(percent, 0, 100), 100),
      Mix2(p[3], Clamp(percent, 0, 100), other[3], 100 - Clamp(percent, 0, 100), 100)>>

\* Point::segment, percent in hundredths
Segment(p, other, percent) ==
    <<Mix2(p[1], 100 - Clamp(percent, 0, 100), other[1], Clamp(percent, 0, 100), 100),
      Mix2(p[2], 100 - Clamp(percent, 0, 100), other[2], Clamp(percent, 0, 100), 100),
      Mix2(p[3], 100 - Clamp(percent, 0, 100), other[3], Clamp(percent, 0, 100), 100)>>

RECURSIVE WDivDigits(_, _, _, _)
\* long division of a non-negative wide w by a small d, from limb i down
WDivDigits(w, d, i, st) ==
    IF i = 0 THEN st.quot
    ELSE WDivDigits(w, d, i - 1,
                    [quot |-> <<(st.rem * Base + w[i]) \div d>> \o st.quot,
                     rem |-> (st.rem * Base + w[i]) % d])

WDivSmall(w, d) == WStrip(WDivDigits(w, d, Len(w), [quot |-> <<>>, rem |-> 0]))

\* (v * 1000.0).round() for a wide v in micro-units: a wide count of thousandths
WRoundQ(w) ==
    IF WSign(w) >= 0
    THEN WDivSmall(WAdd(WAdd(w, w), WInt(Q)), 2 * Q)
    ELSE WNeg(WDivSmall(WAdd(WAdd(WNeg(w), WNeg(w)), WInt(Q)), 2 * Q))

\* one coordinate of the product of calculate_surface_normal, u and v in thousandths
CrossCoord(ua, vb, ub, va) == WRoundQ(WSub(WMulInt(ua, vb), WMulInt(ub, va)))

\* calculate_surface_normal; the result in wide thousandths
calculate_surface_normal(p1, p2, p3) ==
    LET u == <<RoundQ(p2[1] - p1[1]) \div Q, RoundQ(p2[2] - p1[2]) \div Q,
               RoundQ(p2[3] - p1[3]) \div Q>>
        v == <<RoundQ(p3[1] - p1[1]) \div Q, RoundQ(p3[2] - p1[2]) \div Q,
               RoundQ(p3[3] - p1[3]) \div Q>>
    IN  <<CrossCoord(u[2], v[3], u[3], v[2]),
          CrossCoord(u[3], v[1], u[1], v[3]),
          CrossCoord(u[1], v[2], u[2], v[1])>>

\* pointing_away_from_origin: every product of coordinates is >= 0.0
pointing_away_from_origin(point, vector) ==
    /\ Sgn(point[1]) * WSign(vector[1]) >= 0
    /\ Sgn(point[2]) * WSign(vector[2]) >= 0
    /\ Sgn(point[3]) * WSign(vector[3]) >= 0

Reverse(seq) == Vec([i \in 1..Len(seq) |-> seq[Len(seq) + 1 - i]])

\* the fixer with boundary.swap(0, 1) in place of boundary.reverse()
fix_boundary_orientationSwap(tile) ==
    IF Len(tile.boundary) >= 3
       /\ ~pointing_away_from_origin(tile.center_point,
              calculate_surface_normal(tile.boundary[2], tile.boundary[3], tile.boundary[1]))
    THEN [tile EXCEPT !.boundary = <<@[2], @[1]>> \o SubSeq(@, 3, Len(@))]
    ELSE tile

\* Tile::fix_boundary_orientation
fix_boundary_orientation(tile) ==
    IF Len(tile.boundary) >= 3
       /\ ~pointing_away_from_origin(tile.center_point,
              calculate_surface_normal(tile.boundary[2], tile.boundary[3], tile.boundary[1]))
    THEN [tile EXCEPT !.boundary = Reverse(@)]
    ELSE tile

\* the Tile that Tile::new builds before it fixes the orientation: one
\* boundary point per face, in the order of the faces
TileBuilt(center_point, fs, hex) ==
    [center_point |-> center_point,
     boundary |-> Vec([i \in 1..Len(fs) |->
                          Segment(center_point, get_centroid(fs[i]), hex)]),
     neighbor_ids |-> {PointToString(q) :
                          q \in UNION {RangeOf(get_other_points(fs[i], center_point)) :
                                          i \in 1..Len(fs)}},
     neighbors |-> {}]

\* Tile::new without its clamp of hex_size
TileNewUnclamped(center_point, fs, hex) ==
    fix_boundary_orientation(TileBuilt(center_point, fs, hex))

\* Tile::new with an index written into neighbors
TileNewWithNeighbor(center_point, fs, hex) ==
    [TileNewUnclamped(center_point, fs, Clamp(hex, MinHexSize, MaxHexSize))
        EXCEPT !.neighbors = {0}]

\* Tile::new; neighbor_ids is kept as a set, the order of a HashMap's keys
\* being any
TileNew(center_point, fs, hex) ==
    fix_boundary_orientation(TileBuilt(center_point, fs, Clamp(hex, MinHexSize, MaxHexSize)))

\* Display for Tile
TileToString(tile) == PointToString(tile.center_point)

\* tile_lookup.insert(tile_id, tiles.len())
LookupInsert(lookup, tile_id, idx) ==
    Table([id \in DOMAIN lookup \cup {tile_id} |-> IF id = tile_id THEN idx ELSE lookup[id]])

\* the resolution with indices counted from 1
ResolveNeighborsFromOne(neighbor_ids, lookup) ==
    {lookup[id] + 1 : id \in neighbor_ids \cap DOMAIN lookup}

\* neighbor_ids.iter().filter_map(|id| tile_lookup.get(id).copied()).collect()
ResolveNeighbors(neighbor_ids, lookup) ==
    {lookup[id] : id \in neighbor_ids \cap DOMAIN lookup}

\* the position in insertion order of the k-th entry a HashMap of n entries
\* yields under a RandomState sd
IterOrder(k, n, sd) ==
    IF sd % 2 = 0
    THEN ((k - 1 + (sd \div 2)) % n) + 1
    ELSE n - ((k - 1 + (sd \div 2)) % n)

\* ------------------------------------------------------------------ state
VARIABLES
    pc,               \* the loop of Hexasphere::new that runs next
    radius,           \* argument, micro-units
    num_divisions,    \* argument
    hex_size,         \* argument, hundredths
    points,           \* the point pool, HashMap<Point, Point>
    face_pos,         \* position of `for face in faces`
    new_faces,        \* Vec<Face>
    face_id,          \* the face id counter
    projected_points, \* HashMap<Point, Point>
    norm,             \* the normalized point find_projected_point computes for a point
    seed,             \* the RandomState of point_to_faces
    face_idx,         \* position of `for (face_idx, face) in new_faces`
    point_to_faces,   \* HashMap<Point, Vec<usize>>, entries in insertion order
    dropped,          \* lookups of find_projected_point that returned None
    tiles,            \* Vec<Tile>
    tile_lookup,      \* HashMap<String, usize>
    resolve_pos,      \* position of `for tile in &mut tiles`
    prev_run,         \* the tiles an earlier call with the same arguments returned
    call              \* the last direct call of a geometry function and its outcome

argVars == <<radius, num_divisions, hex_size>>

subdivideVars == <<points, face_pos, new_faces, face_id>>

projectVars == <<projected_points, norm, seed>>

groupVars == <<face_idx, point_to_faces, dropped>>

tileVars == <<tiles, tile_lookup, resolve_pos>>

vars == <<pc, argVars, subdivideVars, projectVars, groupVars, tileVars, prev_run, call>>

\* the magnitude of an icosahedron corner
CornerMag == Magnitude(corners[1])

\* radii the model calls Hexasphere::new with: 0.0, 1000.0 and the radius
\* the corners already lie on
Radii == {0, OneK, CornerMag}

\* hex_size arguments, in hundredths
HexSizes == {50, 100}

NoRun == [ran |-> FALSE, tiles |-> <<>>, radius |-> 0, seed |-> 0]

NoCall == [op |-> "none", args |-> <<>>, outcome |-> "none", value |-> <<>>]

\* the pool after the corners are inserted
StartPoints == Table([p \in RangeOf(corners) |-> p])

\* the state of Hexasphere::new(r, n, h) when its loops begin
Start(r, n, h) ==
    /\ pc = "subdivide"
    /\ radius = r
    /\ num_divisions = n
    /\ hex_size = h
    /\ points = StartPoints
    /\ face_pos = 1
    /\ new_faces = <<>>
    /\ face_id = Len(faces)
    /\ projected_points = <<>>
    /\ norm = <<>>
    /\ seed = 0
    /\ face_idx = 0
    /\ point_to_faces = <<>>
    /\ dropped = 0
    /\ tiles = <<>>
    /\ tile_lookup = <<>>
    /\ resolve_pos = 0

Init ==
    /\ \E r \in Radii, n \in 0..MaxDepth, h \in HexSizes : Start(r, n, h)
    /\ prev_run = NoRun
    /\ call = NoCall

\* one iteration of `for face in faces`: subdivide_face and extend
SubdivideFace ==
    /\ pc = "subdivide"
    /\ \E s \in {subdivide_face(faces[face_pos], num_divisions, points, face_id)} :
           /\ points' = s.points
           /\ new_faces' = new_faces \o s.faces
           /\ face_id' = s.face_id
    /\ face_pos' = face_pos + 1
    /\ pc' = IF face_pos = Len(faces) THEN "project" ELSE "subdivide"
    /\ UNCHANGED <<argVars, projectVars, groupVars, tileVars, prev_run, call>>

\* the loop `for point in points.into_values()`, and the creation of
\* point_to_faces with its RandomState
ProjectPoints ==
    /\ pc = "project"
    /\ \E proj \in {{Project(p, radius, 100) : p \in RangeOf(points)}} :
           /\ projected_points' = Table([q \in proj |-> q])
           /\ norm' = Table([p \in DOMAIN points \cup proj |-> Normalized(p)])
    /\ seed' \in 0..MaxSeed
    /\ pc' = "group"
    /\ UNCHANGED <<argVars, subdivideVars, groupVars, tileVars, prev_run, call>>

Misses(c) == IF c = None THEN 1 ELSE 0

\* one iteration of `for (face_idx, face) in new_faces.iter().enumerate()`
GroupFace ==
    /\ pc = "group"
    /\ \E face \in {new_faces[face_idx + 1]} :
           \E c1 \in find_projected_point(face.points[1], projected_points, norm),
              c2 \in find_projected_point(face.points[2], projected_points, norm),
              c3 \in find_projected_point(face.points[3], projected_points, norm) :
              /\ point_to_faces' =
                     PushFace(PushFace(PushFace(point_to_faces, c1, face_idx), c2, face_idx),
                              c3, face_idx)
              /\ dropped' = dropped + Misses(c1) + Misses(c2) + Misses(c3)
              /\ pc' = IF face_idx + 1 < Len(new_faces) THEN "group"
                       ELSE IF point_to_faces' = <<>> THEN "done" ELSE "tiles"
    /\ face_idx' = face_idx + 1
    /\ UNCHANGED <<argVars, subdivideVars, projectVars, tileVars, prev_run, call>>

\* one iteration of `for (point, face_indices) in point_to_faces`
BuildTile ==
    /\ pc = "tiles"
    /\ \E entry \in {point_to_faces[IterOrder(Len(tiles) + 1, Len(point_to_faces), seed)]} :
       \E point_faces \in {Vec([i \in 1..Len(entry.faces) |-> new_faces[entry.faces[i] + 1]])} :
       \E tile \in {TileNew(entry.point, sort_faces_around_point(point_faces, entry.point),
                            hex_size)} :
           /\ tiles' = Append(tiles, tile)
           /\ tile_lookup' = LookupInsert(tile_lookup, TileToString(tile), Len(tiles))
    /\ pc' = IF Len(tiles) + 1 < Len(point_to_faces) THEN "tiles" ELSE "resolve"
    /\ UNCHANGED <<argVars, subdivideVars, projectVars, groupVars, resolve_pos, prev_run, call>>

\* one iteration of `for tile in &mut tiles`: the ids the lookup knows, as indices
ResolveTile ==
    /\ pc = "resolve"
    /\ tiles' = [tiles EXCEPT ![resolve_pos + 1].neighbors =
                    ResolveNeighbors(tiles[resolve_pos + 1].neighbor_ids, tile_lookup)]
    /\ resolve_pos' = resolve_pos + 1
    /\ pc' = IF resolve_pos + 1 < Len(tiles) THEN "resolve" ELSE "done"
    /\ UNCHANGED <<argVars, subdivideVars, projectVars, groupVars, tile_lookup, prev_run, call>>

\* Hexasphere::new, one loop iteration at a time
Next == SubdivideFace \/ ProjectPoints \/ GroupFace \/ BuildTile \/ ResolveTile

Spec == Init /\ [][Next]_vars

\* --------------------------------------------------- a second construction
\* Hexasphere::new called again with the arguments of the call that returned
Rerun ==
    /\ pc = "done"
    /\ ~prev_run.ran
    /\ prev_run' = [ran |-> TRUE, tiles |-> tiles, radius |-> radius, seed |-> seed]
    /\ pc' = "subdivide"
    /\ points' = StartPoints
    /\ face_pos' = 1
    /\ new_faces' = <<>>
    /\ face_id' = Len(faces)
    /\ projected_points' = <<>>
    /\ norm' = <<>>
    /\ seed' = 0
    /\ face_idx' = 0
    /\ point_to_faces' = <<>>
    /\ dropped' = 0
    /\ tiles' = <<>>
    /\ tile_lookup' = <<>>
    /\ resolve_pos' = 0
    /\ UNCHANGED <<argVars, call>>

NextRerun == Next \/ Rerun

SpecRerun == Init /\ [][NextRerun]_vars

\* ------------------------------------------- a construction of twice the radius
\* Hexasphere::new called again with the radius doubled and the other
\* arguments of the call that returned
RerunDoubled ==
    /\ pc = "done"
    /\ ~prev_run.ran
    /\ radius <= OneK
    /\ prev_run' = [ran |-> TRUE, tiles |-> tiles, radius |-> radius, seed |-> seed]
    /\ radius' = 2 * radius
    /\ pc' = "subdivide"
    /\ points' = StartPoints
    /\ face_pos' = 1
    /\ new_faces' = <<>>
    /\ face_id' = Len(faces)
    /\ projected_points' = <<>>
    /\ norm' = <<>>
    /\ seed' = 0
    /\ face_idx' = 0
    /\ point_to_faces' = <<>>
    /\ dropped' = 0
    /\ tiles' = <<>>
    /\ tile_lookup' = <<>>
    /\ resolve_pos' = 0
    /\ UNCHANGED <<num_divisions, hex_size, call>>

NextDoubled == Next \/ RerunDoubled

SpecDoubled == Init /\ [][NextDoubled]_vars

\* ------------------------------------------------------ create_inner_sphere
\* Point::new(x * ratio, ..) for ratio = inner_radius / self.radius, one coordinate
ScaleCoord(x, inner_radius, outer_radius) ==
    Sgn(x) * RoundQ(MulDiv(Abs(x), inner_radius, outer_radius))

ScalePoint(p, inner_radius, outer_radius) ==
    <<ScaleCoord(p[1], inner_radius, outer_radius), ScaleCoord(p[2], inner_radius, outer_radius),
      ScaleCoord(p[3], inner_radius, outer_radius)>>

\* an inner tile whose boundary is the outer one, not scaled
InnerTileCentreOnly(tile, inner_radius, outer_radius) ==
    [center_point |-> ScalePoint(tile.center_point, inner_radius, outer_radius),
     boundary |-> tile.boundary,
     neighbor_ids |-> tile.neighbor_ids,
     neighbors |-> tile.neighbors]

\* the Tile the closure of create_inner_sphere builds from a tile
InnerTile(tile, inner_radius, outer_radius) ==
    [center_point |-> ScalePoint(tile.center_point, inner_radius, outer_radius),
     boundary |-> Vec([j \in 1..Len(tile.boundary) |->
                          ScalePoint(tile.boundary[j], inner_radius, outer_radius)]),
     neighbor_ids |-> tile.neighbor_ids,
     neighbors |-> tile.neighbors]

\* inner_radius arguments: 0.0, 500.0 and 900.0
InnerRadii == {0, 500 * Micro, 900 * Micro}

\* Hexasphere::create_inner_sphere on the hexasphere that was returned
CreateInnerSphere ==
    /\ pc = "done"
    /\ call = NoCall
    /\ \E inner_radius \in InnerRadii :
           call' = [op |-> "create_inner_sphere", args |-> <<inner_radius>>,
                    outcome |-> "returned",
                    value |-> [radius |-> inner_radius,
                               tiles |-> Vec([i \in 1..Len(tiles) |->
                                                 InnerTile(tiles[i], inner_radius, radius)])]]
    /\ UNCHANGED <<pc, argVars, subdivideVars, projectVars, groupVars, tileVars, prev_run>>

NextInner == Next \/ CreateInnerSphere

SpecInner == Init /\ [][NextInner]_vars

\* ------------------------------------------------------------------ to_obj
\* the body of `for boundary_point in &tile.boundary` with a new vertex pushed
\* for every point, the vertex_map never consulted
AddVertexAlways(acc, boundary_point) ==
    [vertices |-> Append(acc.vertices, boundary_point),
     vertex_map |-> LookupInsert(acc.vertex_map, PointToString(boundary_point),
                                 Len(acc.vertices) + 1),
     face_indices |-> Append(acc.face_indices, Len(acc.vertices) + 1)]

\* the body of `for boundary_point in &tile.boundary`: the index the key has
\* in vertex_map, or a new vertex and its 1-based index
AddVertex(acc, boundary_point) ==
    IF PointToString(boundary_point) \in DOMAIN acc.vertex_map
    THEN [acc EXCEPT !.face_indices = Append(@, acc.vertex_map[PointToString(boundary_point)])]
    ELSE [vertices |-> Append(acc.vertices, boundary_point),
          vertex_map |-> LookupInsert(acc.vertex_map, PointToString(boundary_point),
                                      Len(acc.vertices) + 1),
          face_indices |-> Append(acc.face_indices, Len(acc.vertices) + 1)]

RECURSIVE AddBoundary(_, _, _)
\* the loop over the boundary of one tile, from point j on
AddBoundary(acc, boundary, j) ==
    IF j > Len(boundary) THEN acc
    ELSE AddBoundary(AddVertex(acc, boundary[j]), boundary, j + 1)

\* the state of to_obj before its loop over the tiles
ObjStart == [vertices |-> <<>>, vertex_map |-> <<>>, faces |-> <<>>]

\* the state after the iteration for one tile
ObjAfterTile(st, acc) ==
    [vertices |-> acc.vertices, vertex_map |-> acc.vertex_map,
     faces |-> Append(st.faces, acc.face_indices)]

ObjTile(st, tile) ==
    ObjAfterTile(st, AddBoundary([vertices |-> st.vertices, vertex_map |-> st.vertex_map,
                                  face_indices |-> <<>>], tile.boundary, 1))

\* the lines of the text: "# vertices", a line "v x y z" per vertex, an empty
\* line, "# faces", a line "f i j .." per face
ObjLines(st) ==
    <<[kind |-> "# vertices"]>>
        \o Vec([i \in 1..Len(st.vertices) |-> [kind |-> "v", xyz |-> st.vertices[i]]])
        \o <<[kind |-> ""], [kind |-> "# faces"]>>
        \o Vec([i \in 1..Len(st.faces) |-> [kind |-> "f", indices |-> st.faces[i]]])

\* the state of to_obj so far
ObjState == IF call = NoCall THEN ObjStart ELSE call.value

\* one iteration of `for tile in &self.tiles` of to_obj, on the hexasphere
\* that was returned
ToObjTile ==
    /\ pc = "done"
    /\ call = NoCall \/ (call.op = "to_obj" /\ call.outcome = "running")
    /\ Len(ObjState.faces) < Len(tiles)
    /\ call' = [op |-> "to_obj", args |-> <<>>, outcome |-> "running",
                value |-> ObjTile(ObjState, tiles[Len(ObjState.faces) + 1])]
    /\ UNCHANGED <<pc, argVars, subdivideVars, projectVars, groupVars, tileVars, prev_run>>

\* the end of to_obj: the vertices and the faces are written
ToObjWrite ==
    /\ pc = "done"
    /\ call = NoCall \/ (call.op = "to_obj" /\ call.outcome = "running")
    /\ Len(ObjState.faces) = Len(tiles)
    /\ call' = [op |-> "to_obj", args |-> <<>>, outcome |-> "returned",
                value |-> ObjLines(ObjState)]
    /\ UNCHANGED <<pc, argVars, subdivideVars, projectVars, groupVars, tileVars, prev_run>>

NextObj == Next \/ ToObjTile \/ ToObjWrite

SpecObj == Init /\ [][NextObj]_vars

\* ------------------------------------------------- direct calls of Point
\* coordinates, radii and percents the calls are made with
CallCoords == {0 - 4 * Micro, 0, 3 * Micro}

CallRadii == {0, Micro, 10 * Micro}

CallPercents == {0, 50, 100}

InitCalls ==
    /\ Start(0, 0, 100)
    /\ prev_run = NoRun
    /\ call = NoCall

\* Point::project: it returns for every point; no path panics or returns Err
CallProject ==
    /\ call = NoCall
    /\ \E x \in CallCoords, y \in CallCoords, z \in CallCoords, r \in CallRadii,
          percent \in CallPercents :
           call' = [op |-> "project", args |-> <<<<x, y, z>>, r, percent>>,
                    outcome |-> "returned", value |-> Project(<<x, y, z>>, r, percent)]
    /\ UNCHANGED <<pc, argVars, subdivideVars, projectVars, groupVars, tileVars, prev_run>>

\* the stars Tile::new is called with: a corner of the icosahedron, as it is
\* or projected to the radius 1000.0, and the faces that meet at it
FacesAt(p) == SelectSeq(faces, LAMBDA f : p \in RangeOf(f.points))

CallStars ==
    {[center |-> corners[c], faces |-> FacesAt(corners[c])] : c \in 1..2}
        \cup {[center |-> Project(corners[c], OneK, 100), faces |-> FacesAt(corners[c])] :
                 c \in 1..2}

\* hex_size arguments of the direct calls, in hundredths: below, inside and
\* above the range 0.01..1.0
CallHexSizes == {0 - 50, 0, 1, 50, 100, 150}

\* Tile::new
CallTileNew ==
    /\ call = NoCall
    /\ \E star \in CallStars, hex \in CallHexSizes :
           call' = [op |-> "Tile::new", args |-> <<star.center, star.faces, hex>>,
                    outcome |-> "returned",
                    value |-> TileNew(star.center, star.faces, hex)]
    /\ UNCHANGED <<pc, argVars, subdivideVars, projectVars, groupVars, tileVars, prev_run>>

\* Tile::scaled_boundary, scale in hundredths
scaled_boundary(tile, scale) ==
    Vec([i \in 1..Len(tile.boundary) |->
            Segment(tile.center_point, tile.boundary[i], 100 - Clamp(scale, 0, 100))])

\* the tiles the methods of Tile are called on
CallTiles == {TileNew(star.center, star.faces, 50) : star \in CallStars}

\* scale arguments, in hundredths
CallScales == {0 - 50, 0, 25, 50, 100, 150}

\* Tile::scaled_boundary
CallScaledBoundary ==
    /\ call = NoCall
    /\ \E tile \in CallTiles, scale \in CallScales :
           call' = [op |-> "Tile::scaled_boundary", args |-> <<tile, scale>>,
                    outcome |-> "returned", value |-> scaled_boundary(tile, scale)]
    /\ UNCHANGED <<pc, argVars, subdivideVars, projectVars, groupVars, tileVars, prev_run>>

\* x - normal.x * thickness for the normal c / mag, the product truncated to a
\* micro-unit; Vector3::normalize gives the zero vector for mag = 0
InsetCoord(x, c, mag, thickness) ==
    IF mag = 0 THEN x ELSE x - Sgn(c) * MulDiv(Abs(c), thickness, mag)

\* Point::new(point - normal * thickness) for the normal of the centre
InsetPoint(p, center, mag, thickness) ==
    PointNew(InsetCoord(p[1], center[1], mag, thickness),
             InsetCoord(p[2], center[2], mag, thickness),
             InsetCoord(p[3], center[3], mag, thickness))

\* ThickTile::from_surface_tile
from_surface_tile(surface_tile, thickness) ==
    [outer_boundary |-> surface_tile.boundary,
     inner_boundary |-> Vec([j \in 1..Len(surface_tile.boundary) |->
                               InsetPoint(surface_tile.boundary[j], surface_tile.center_point,
                                          Magnitude(surface_tile.center_point), thickness)]),
     center_point |-> surface_tile.center_point,
     thickness |-> thickness,
     is_hexagon |-> Len(surface_tile.boundary) = 6]

\* the groups of indices a loop `for i in 0..n` extends indices with, one
\* group of width entries per i, as one sequence
Extended(group, n, width) ==
    Vec([k \in 1..(n * width) |-> group[((k - 1) \div width) + 1][((k - 1) % width) + 1]])

\* the indices of generate_all_vertices for n boundary points, from the values
\* its three index variables have
MeshIndices(n, outer_boundary_start, inner_center_idx, inner_boundary_start) ==
    Extended([i \in 1..n |-> <<0, outer_boundary_start + (i - 1),
                               outer_boundary_start + (i % n)>>], n, 3)
        \o Extended([i \in 1..n |-> <<inner_center_idx, inner_boundary_start + (i % n),
                                      inner_boundary_start + (i - 1)>>], n, 3)
        \o Extended([i \in 1..n |->
                        <<outer_boundary_start + (i - 1), inner_boundary_start + (i - 1),
                          outer_boundary_start + (i % n),
                          outer_boundary_start + (i % n), inner_boundary_start + (i - 1),
                          inner_boundary_start + (i % n)>>], n, 6)

\* ThickTile::generate_all_vertices: outer_boundary_start is vertices.len()
\* after the outer boundary is pushed, inner_center_idx and
\* inner_boundary_start are the vertex_count of the moment
generate_all_vertices(thick) ==
    [vertices |-> <<thick.center_point>> \o thick.outer_boundary
                      \o <<InsetPoint(thick.center_point, thick.center_point,
                                      Magnitude(thick.center_point), thick.thickness)>>
                      \o thick.inner_boundary,
     indices |-> MeshIndices(Len(thick.outer_boundary), 1 + Len(thick.outer_boundary),
                             1 + Len(thick.outer_boundary), 2 + Len(thick.outer_boundary))]

\* the surface tiles thick tiles are made of: the tiles of the direct calls
\* and a tile of three faces
ThickSurfaceTiles ==
    CallTiles \cup {TileNew(corners[1], SubSeq(FacesAt(corners[1]), 1, 3), 100)}

\* thickness arguments: 0.0, 0.5 and 100.0
CallThicknesses == {0, 500 * Q, 100 * Micro}

\* ThickTile::generate_all_vertices
CallGenerateAllVertices ==
    /\ call = NoCall
    /\ \E tile \in ThickSurfaceTiles, thickness \in CallThicknesses :
           \E thick \in {from_surface_tile(tile, thickness)} :
               call' = [op |-> "generate_all_vertices", args |-> <<thick>>,
                        outcome |-> "returned", value |-> generate_all_vertices(thick)]
    /\ UNCHANGED <<pc, argVars, subdivideVars, projectVars, groupVars, tileVars, prev_run>>

\* Option<&Point>: Some(p) is <<p>>, None is <<>>
Some(p) == <<p>>

\* Face::find_third_point: the first point of the face that differs from
\* both arguments
find_third_point(face, p1, p2) ==
    IF \E k \in 1..Len(face.points) : face.points[k] # p1 /\ face.points[k] # p2
    THEN Some(face.points[CHOOSE k \in 1..Len(face.points) :
                              /\ face.points[k] # p1 /\ face.points[k] # p2
                              /\ \A m \in 1..(k - 1) :
                                     face.points[m] = p1 \/ face.points[m] = p2])
    ELSE None

\* the faces of the direct calls: two faces of the icosahedron
CallFaces == {faces[1], faces[8]}

\* point arguments: the vertices of the face, a corner that is only on
\* some of the faces, and a point off the icosahedron
CallPoints(face) == RangeOf(face.points) \cup {corners[1], corners[4], <<Micro, Micro, Micro>>}

\* Face::find_third_point
CallFindThirdPoint ==
    /\ call = NoCall
    /\ \E face \in CallFaces :
           \E p1 \in CallPoints(face), p2 \in CallPoints(face) :
               call' = [op |-> "find_third_point", args |-> <<face, p1, p2>>,
                        outcome |-> "returned", value |-> find_third_point(face, p1, p2)]
    /\ UNCHANGED <<pc, argVars, subdivideVars, projectVars, groupVars, tileVars, prev_run>>

\* Point::subdivide: count = 0 returns the start alone; otherwise the start,
\* the interior points by the formula subdivide_edge uses, and the end
subdivide(self, other, count) ==
    IF count = 0 THEN <<self>> ELSE Vec(EdgeVisits(self, other, count))

\* count arguments of the direct calls
CallCounts == 0..MaxDepth

\* end points of the direct calls
CallEnds == {corners[1], corners[2], <<0, 0, 0>>, <<Micro, 2 * Micro, 0 - Micro>>}

\* the pools of the direct calls: empty, and holding the corners
CallPools == {<<>>, StartPoints}

\* Point::subdivide
CallPointSubdivide ==
    /\ call = NoCall
    /\ \E self \in CallEnds, other \in CallEnds, count \in CallCounts :
           call' = [op |-> "Point::subdivide", args |-> <<self, other, count>>,
                    outcome |-> "returned", value |-> subdivide(self, other, count)]
    /\ UNCHANGED <<pc, argVars, subdivideVars, projectVars, groupVars, tileVars, prev_run>>

\* subdivide_edge; the value is the returned vector and the pool after the call
CallSubdivideEdge ==
    /\ call = NoCall
    /\ \E p1 \in CallEnds, p2 \in CallEnds, count \in CallCounts, pool \in CallPools :
           call' = [op |-> "subdivide_edge", args |-> <<p1, p2, count, pool>>,
                    outcome |-> "returned", value |-> subdivide_edge(p1, p2, count, pool)]
    /\ UNCHANGED <<pc, argVars, subdivideVars, projectVars, groupVars, tileVars, prev_run>>

\* the triangles of the direct calls: a face of the icosahedron, a face whose
\* grid points need no rounding, and a face with a vertex at the origin
CallTriangles ==
    {faces[1],
     FaceNew(7, <<0, 0, 0>>, <<12 * Micro, 0, 0>>, <<0, 12 * Micro, 0>>),
     FaceNew(3, corners[1], <<0, 0, 0>>, <<Micro, 2 * Micro, 0 - Micro>>)}

\* values of the face-id counter when subdivide_face is called
CallFaceIds == {0, Len(faces)}

\* subdivide_face; the value is the returned vector with the pool and the
\* counter after the call
CallSubdivideFace ==
    /\ call = NoCall
    /\ \E face \in CallTriangles, n \in CallCounts, pool \in CallPools, fid \in CallFaceIds :
           call' = [op |-> "subdivide_face", args |-> <<face, n, pool, fid>>,
                    outcome |-> "returned", value |-> subdivide_face(face, n, pool, fid)]
    /\ UNCHANGED <<pc, argVars, subdivideVars, projectVars, groupVars, tileVars, prev_run>>

\* the slices sort_faces_around_point is called with: the first k faces at a
\* corner for k = 0..5, the same in reverse order, and four of them scrambled
CallFaceLists ==
    {SubSeq(FacesAt(corners[1]), 1, k) : k \in 0..5}
        \cup {Reverse(SubSeq(FacesAt(corners[1]), 1, k)) : k \in 2..5}
        \cup {<<FacesAt(corners[1])[3], FacesAt(corners[1])[1],
                FacesAt(corners[1])[5], FacesAt(corners[1])[2]>>}

\* the points the faces are sorted around: the corner and its projection
CallCentres == {corners[1], Project(corners[1], OneK, 100)}

\* sort_faces_around_point; the value is the slice after the call
CallSortFaces ==
    /\ call = NoCall
    /\ \E fs \in CallFaceLists, point \in CallCentres :
           call' = [op |-> "sort_faces_around_point", args |-> <<fs, point>>,
                    outcome |-> "returned", value |-> sort_faces_around_point(fs, point)]
    /\ UNCHANGED <<pc, argVars, subdivideVars, projectVars, groupVars, tileVars, prev_run>>

\* an f64 coordinate with the sign of a zero: the value in micro-units, the
\* sign bit of a value 0, and whether it is NaN
Float(v, negative) == [v |-> v, negzero |-> v = 0 /\ negative, nan |-> FALSE]

NaNFloat == [v |-> 0, negzero |-> FALSE, nan |-> TRUE]

\* (x * 1000.0).round() / 1000.0: round keeps the sign, so a negative value
\* above -0.0005 becomes -0.0
RoundFloat(x) == IF x.nan THEN x ELSE Float(RoundQ(x.v), x.v < 0 \/ x.negzero)

\* Point::new on f64 arguments
FloatPointNew(x, y, z) == <<RoundFloat(x), RoundFloat(y), RoundFloat(z)>>

\* c * w is -0.0: c is -0.0, or c is negative and w is 0.0 (w >= 0)
NegativeZeroTerm(c, w) == c.negzero \/ (c.v < 0 /\ w = 0)

\* a * (1.0 - percent) + b * percent for weights wa + wb = 100 hundredths
\* that are 0, 50 or 100, for which the products are exact; a sum 0.0 is
\* -0.0 only when both terms are -0.0
MixFloat(a, wa, b, wb) ==
    Float((a.v * wa + b.v * wb) \div 100,
          a.v * wa = 0 /\ b.v * wb = 0
              /\ NegativeZeroTerm(a, wa) /\ NegativeZeroTerm(b, wb))

\* Point::segment on points with f64 coordinates
FloatSegment(p, other, percent) ==
    FloatPointNew(MixFloat(p[1], 100 - Clamp(percent, 0, 100), other[1], Clamp(percent, 0, 100)),
                  MixFloat(p[2], 100 - Clamp(percent, 0, 100), other[2], Clamp(percent, 0, 100)),
                  MixFloat(p[3], 100 - Clamp(percent, 0, 100), other[3], Clamp(percent, 0, 100)))

\* one coordinate of Point::project, x * ratio * percent with ratio >= 0:
\* the sign of x is the sign of the product
FloatProjectCoord(c, r, mag, percent) ==
    Float(ProjectCoord(c.v, r, mag, Clamp(percent, 0, 100)), c.v < 0 \/ c.negzero)

\* Point::project on a point with f64 coordinates; mag = 0 gives NaN
FloatProjectBy(p, r, mag, percent) ==
    IF mag = 0
    THEN <<NaNFloat, NaNFloat, NaNFloat>>
    ELSE <<FloatProjectCoord(p[1], r, mag, percent), FloatProjectCoord(p[2], r, mag, percent),
           FloatProjectCoord(p[3], r, mag, percent)>>

FloatProject(p, r, percent) ==
    FloatProjectBy(p, r, Magnitude(<<p[1].v, p[2].v, p[3].v>>), percent)

\* derive(PartialEq) on the f64 fields: -0.0 == 0.0, NaN differs from all
FloatEq(a, b) == ~a.nan /\ ~b.nan /\ a.v = b.v

eq(a, b) == FloatEq(a[1], b[1]) /\ FloatEq(a[2], b[2]) /\ FloatEq(a[3], b[3])

\* Display for f64: -0.0 is written "-0"
FloatToString(a) == IF a.nan THEN "NaN" ELSE IF a.negzero THEN "-0" ELSE ToString(a.v)

\* Display for Point on f64 coordinates, the string Hash for Point hashes
to_string(p) ==
    FloatToString(p[1]) \o "," \o FloatToString(p[2]) \o "," \o FloatToString(p[3])

\* the points Point::new gives for x in {-1.0, -0.0004, 0.0, 2.0} and
\* y in {0.0, 0.0004}
CallNewPoints ==
    {FloatPointNew(Float(x, FALSE), Float(y, FALSE), Float(0, FALSE)) :
        x \in {0 - Micro, 0 - 400, 0, 2 * Micro}, y \in {0, 400}}

\* points obtained through Point::new, segment and project
CallFloatPoints ==
    CallNewPoints
        \cup {FloatSegment(a, b, percent) :
                 a \in CallNewPoints, b \in CallNewPoints, percent \in CallPercents}
        \cup {FloatProject(a, r, percent) :
                 a \in CallNewPoints, r \in {0, Micro}, percent \in {0, 100}}

\* a == b, with the strings the two points hash
CallPointEq ==
    /\ call = NoCall
    /\ \E a \in CallFloatPoints, b \in CallFloatPoints :
           call' = [op |-> "Point::eq", args |-> <<a, b>>, outcome |-> "returned",
                    value |-> [eq |-> eq(a, b), strings |-> <<to_string(a), to_string(b)>>]]
    /\ UNCHANGED <<pc, argVars, subdivideVars, projectVars, groupVars, tileVars, prev_run>>

\* the tiles the fixer is called on, as Tile::new has built them: the stars
\* of the direct calls with their faces in both orders, and their first two faces
FaceOrders(fs) == {fs, Reverse(fs), SubSeq(fs, 1, 2)}

CallBuiltTiles ==
    UNION {{TileBuilt(star.center, fs, hex) : fs \in FaceOrders(star.faces), hex \in HexSizes} :
              star \in CallStars}

\* Tile::fix_boundary_orientation; the value is the tile after the call
CallFixBoundaryOrientation ==
    /\ call = NoCall
    /\ \E tile \in CallBuiltTiles :
           call' = [op |-> "fix_boundary_orientation", args |-> <<tile>>,
                    outcome |-> "returned", value |-> fix_boundary_orientation(tile)]
    /\ UNCHANGED <<pc, argVars, subdivideVars, projectVars, groupVars, tileVars, prev_run>>

NextCalls ==
    \/ CallFixBoundaryOrientation
    \/ CallPointEq
    \/ CallSortFaces
    \/ CallSubdivideFace
    \/ CallPointSubdivide
    \/ CallSubdivideEdge
    \/ CallProject
    \/ CallTileNew
    \/ CallScaledBoundary
    \/ CallGenerateAllVertices
    \/ CallFindThirdPoint

SpecCalls == InitCalls /\ [][NextCalls]_vars

\* ------------------------------------------------- calls on one point pool
\* the pool of Hexasphere::new after the corners are inserted, for each depth
InitPool ==
    /\ \E n \in 0..MaxDepth : Start(OneK, n, 100)
    /\ prev_run = NoRun
    /\ call = NoCall

\* points given to get_or_insert_point: a corner, the middle of the edge
\* between two corners, and a point that is on no face
PoolCandidates ==
    {corners[1], EdgePoint(corners[1], corners[2], 1, 2), <<Micro, 2 * Micro, 0 - Micro>>}

\* get_or_insert_point on the pool
PoolInsert ==
    /\ pc = "subdivide"
    /\ \E point \in PoolCandidates :
           \E g \in {get_or_insert_point(point, points)} :
               /\ points' = g.points
               /\ call' = [op |-> "get_or_insert_point", args |-> <<point, points>>,
                           outcome |-> "returned", value |-> g]
    /\ UNCHANGED <<pc, argVars, face_pos, new_faces, face_id, projectVars, groupVars,
                   tileVars, prev_run>>

\* subdivide_edge on the pool, between two corners and from a corner to a
\* point on no face
PoolEdge ==
    /\ pc = "subdivide"
    /\ \E p2 \in {corners[2], <<Micro, 2 * Micro, 0 - Micro>>}, count \in {2, MaxDepth} :
           \E e \in {subdivide_edge(corners[1], p2, count, points)} :
               /\ points' = e.points
               /\ call' = [op |-> "subdivide_edge", args |-> <<corners[1], p2, count, points>>,
                           outcome |-> "returned", value |-> e]
    /\ UNCHANGED <<pc, argVars, face_pos, new_faces, face_id, projectVars, groupVars,
                   tileVars, prev_run>>

\* subdivide_face on the pool, as the loop of Hexasphere::new calls it
PoolFace == face_pos <= MaxPoolFaces /\ SubdivideFace

NextPool == PoolInsert \/ PoolEdge \/ PoolFace

SpecPool == InitPool /\ [][NextPool]_vars

\* ------------------------------------------------------------- properties
\* Hexasphere::new has returned its Hexasphere
Returned == pc = "done"

TileIndices == 1..Len(tiles)

\* the tiles whose boundary has n points
TilesOfSize(n) == {i \in TileIndices : Len(tiles[i].boundary) = n}

\* the corners of the icosahedron as Hexasphere::new places them on the sphere
ProjectedCorners == {Project(corners[i], radius, 100) : i \in 1..Len(corners)}

\* C1: a returned hexasphere of num_divisions = d has 12 + 10 * (4^d - 1)
\* tiles, whatever the radius and the hex_size.
C1_TileCount == Returned => Len(tiles) = 12 + 10 * (4 ^ num_divisions - 1)

\* C2: for a positive radius every tile of the returned hexasphere has 5 or 6
\* boundary points, and the tiles of 5 points are exactly 12, the ones whose
\* centre is a projected corner of the icosahedron.
C2_PentagonsAtCorners ==
    (Returned /\ radius > 0) =>
        /\ \A i \in TileIndices : Len(tiles[i].boundary) \in {5, 6}
        /\ Cardinality(TilesOfSize(5)) = 12
        /\ {tiles[i].center_point : i \in TilesOfSize(5)} = ProjectedCorners

\* C2 witness: a returned hexasphere of positive radius with pentagons at the
\* corners and hexagons between them.
C2_Witness ==
    /\ Returned
    /\ radius > 0
    /\ num_divisions >= 2
    /\ TilesOfSize(6) # {}
    /\ \E i \in TilesOfSize(5) : tiles[i].center_point \in ProjectedCorners

\* C3: a second call of Hexasphere::new with the same arguments returns the
\* tiles of the first: the same tile at every index, with the same boundary
\* order and the same neighbors, whatever the iteration order of the maps.
C3_SameResult == (Returned /\ prev_run.ran) => tiles = prev_run.tiles

\* C4: every tile of the returned hexasphere has as many neighbors as it has
\* boundary points.
C4_NeighborCount ==
    Returned => \A i \in TileIndices : Cardinality(tiles[i].neighbors) = Len(tiles[i].boundary)

\* C5: in the returned hexasphere the index of b is among the neighbors of a
\* exactly when the index of a is among the neighbors of b.
C5_NeighborSymmetry ==
    Returned => \A a \in TileIndices, b \in TileIndices :
                    (b - 1 \in tiles[a].neighbors) <=> (a - 1 \in tiles[b].neighbors)

\* C6: when find_projected_point finds no counterpart for a vertex of a face,
\* Hexasphere::new does not return a Hexasphere.
C6_LookupFailureFails == dropped > 0 => ~Returned

\* C7: every index among a tile's neighbors is an index of tiles, and the
\* tile at it has the identity of one of the raw neighbor identities; an
\* identity no tile has leaves no index and does not stop the construction.
C7_ResolvedIndices ==
    \A i \in TileIndices : \A k \in tiles[i].neighbors :
        /\ k \in 0..(Len(tiles) - 1)
        /\ TileToString(tiles[k + 1]) \in tiles[i].neighbor_ids

\* C7 witness: the construction has returned, and a tile has resolved
\* neighbors and also a raw identity that no tile has.
C7_Witness ==
    /\ Returned
    /\ \E i \in TileIndices :
           /\ tiles[i].neighbors # {}
           /\ \E id \in tiles[i].neighbor_ids : id \notin DOMAIN tile_lookup

\* C8: Point::project of a point of magnitude 0 does not return a point.
C8_ProjectOriginFails ==
    (call.op = "project" /\ call.args[1] = <<0, 0, 0>>) => call.outcome # "returned"

\* the faces Hexasphere::new grouped under the centre of tile i
StarOf(i) == (CHOOSE e \in RangeOf(point_to_faces) : e.point = tiles[i].center_point).faces

\* the centroids of the faces of a star
StarCentroids(star) == {get_centroid(new_faces[star[j] + 1]) : j \in 1..Len(star)}

\* C9: with hex_size 1.0 the boundary of a tile is made of the centroids of
\* the faces of its star, one point per face, so the point a face contributes
\* is the same in every tile whose star contains the face.
C9_BoundaryIsCentroids ==
    (Returned /\ hex_size >= MaxHexSize) =>
        \A i \in TileIndices :
            /\ Len(tiles[i].boundary) = Len(StarOf(i))
            /\ RangeOf(tiles[i].boundary) = StarCentroids(StarOf(i))

\* C9 witness: a returned hexasphere of hex_size 1.0 and positive radius in
\* which two tiles share a boundary point, the centroid of a face of both stars.
C9_Witness ==
    /\ Returned
    /\ hex_size >= MaxHexSize
    /\ radius > 0
    /\ \E a \in TileIndices, b \in TileIndices :
           /\ a # b
           /\ \E j \in 1..Len(StarOf(a)) :
                  /\ \E k \in 1..Len(StarOf(b)) : StarOf(a)[j] = StarOf(b)[k]
                  /\ get_centroid(new_faces[StarOf(a)[j] + 1])
                         \in RangeOf(tiles[a].boundary) \cap RangeOf(tiles[b].boundary)

\* C10: in every tile of the returned hexasphere the normal of the triangle of
\* boundary points (1, 2, 0) agrees in sign with the centre on the three axes.
C10_BoundaryFacesOutward ==
    Returned =>
        \A i \in TileIndices :
            Len(tiles[i].boundary) >= 3 =>
                pointing_away_from_origin(tiles[i].center_point,
                    calculate_surface_normal(tiles[i].boundary[2], tiles[i].boundary[3],
                                             tiles[i].boundary[1]))

\* Point::distance_to, truncated to a micro-unit
Distance(a, b) == Magnitude(Diff(a, b))

\* b is twice a, up to the rounding of Point::new on either side
IsDouble(b, a) == Abs((b - a) - a) <= 2 * Q

\* the boundary edge from point j of a boundary to the next one around it
EdgeLength(boundary, j) == Distance(boundary[j], boundary[(j % Len(boundary)) + 1])

\* tile t2 of the sphere of radius 2R against tile t1 of the sphere of radius R
ScaledTile(t2, t1) ==
    /\ Len(t2.boundary) = Len(t1.boundary)
    /\ t2.neighbors = t1.neighbors
    /\ IsDouble(Magnitude(t2.center_point), Magnitude(t1.center_point))
    /\ \A j \in 1..Len(t1.boundary) :
           IsDouble(Magnitude(t2.boundary[j]), Magnitude(t1.boundary[j]))
    /\ \A j \in 1..Len(t1.boundary) :
           IsDouble(EdgeLength(t2.boundary, j), EdgeLength(t1.boundary, j))

\* C11: a construction with radius 2R and the depth and hex_size of one with
\* radius R has the same number of tiles, and tile by tile the same boundary
\* length and neighbors, with the centre distance, every boundary point's
\* distance from the origin and every boundary edge length doubled.
C11_DoubledRadius ==
    (Returned /\ prev_run.ran /\ radius = 2 * prev_run.radius /\ seed = prev_run.seed) =>
        /\ Len(tiles) = Len(prev_run.tiles)
        /\ \A i \in TileIndices : ScaledTile(tiles[i], prev_run.tiles[i])

\* C12: Tile::new with a hex_size below 0.01 returns the boundary it returns
\* for 0.01, and with a hex_size above 1.0 the boundary it returns for 1.0.
C12_HexSizeClamped ==
    call.op = "Tile::new" =>
        /\ call.args[3] < MinHexSize =>
               call.value.boundary = TileNew(call.args[1], call.args[2], MinHexSize).boundary
        /\ call.args[3] > MaxHexSize =>
               call.value.boundary = TileNew(call.args[1], call.args[2], MaxHexSize).boundary

\* C12 witness: Tile::new has returned for a hex_size outside 0.01..1.0, and the
\* boundary is one that another hex_size inside the range does not give.
C12_Witness ==
    /\ call.op = "Tile::new"
    /\ call.args[3] > MaxHexSize \/ call.args[3] < MinHexSize
    /\ Len(call.value.boundary) = 5
    /\ call.value.boundary # TileNew(call.args[1], call.args[2], 50).boundary

\* Point::new(c + (b - c) * scale), scale in hundredths
TowardBoundary(c, b, scale) ==
    <<Mix2(c[1], 100 - scale, b[1], scale, 100), Mix2(c[2], 100 - scale, b[2], scale, 100),
      Mix2(c[3], 100 - scale, b[3], scale, 100)>>

\* C13: Tile::scaled_boundary(scale) returns one point per boundary point, the
\* point C + (B - C) * scale for the scale clamped to 0.0..1.0: the centre for
\* scale 0.0 and the boundary point itself for scale 1.0.
C13_ScaledBoundary ==
    call.op = "Tile::scaled_boundary" =>
        /\ Len(call.value) = Len(call.args[1].boundary)
        /\ \A i \in 1..Len(call.value) :
               call.value[i] = TowardBoundary(call.args[1].center_point,
                                              call.args[1].boundary[i],
                                              Clamp(call.args[2], 0, 100))

\* x * outer_radius and y * inner_radius differ by less than a thousandth of
\* outer_radius: x is y * inner_radius / outer_radius as Point::new rounds it
IsScaledCoord(x, y, inner_radius, outer_radius) ==
    /\ WLeq(WSub(WMulInt(x, outer_radius), WMulInt(y, inner_radius)), WMulInt(Q, outer_radius))
    /\ WLeq(WSub(WMulInt(y, inner_radius), WMulInt(x, outer_radius)), WMulInt(Q, outer_radius))

IsScaledPoint(p, q, inner_radius, outer_radius) ==
    \A k \in 1..3 : IsScaledCoord(p[k], q[k], inner_radius, outer_radius)

\* tile inner of the inner sphere against tile outer of the outer sphere
InnerMatchesOuter(inner, outer, inner_radius, outer_radius) ==
    /\ Len(inner.boundary) = Len(outer.boundary)
    /\ inner.neighbor_ids = outer.neighbor_ids
    /\ inner.neighbors = outer.neighbors
    /\ IsScaledPoint(inner.center_point, outer.center_point, inner_radius, outer_radius)
    /\ \A j \in 1..Len(outer.boundary) :
           IsScaledPoint(inner.boundary[j], outer.boundary[j], inner_radius, outer_radius)

\* C14: create_inner_sphere(r) returns a hexasphere of radius r with one tile
\* per tile of the outer sphere, at the same index: the same boundary length,
\* neighbor_ids and neighbors, the centre and boundary scaled by r / radius.
C14_InnerSphere ==
    call.op = "create_inner_sphere" =>
        /\ call.value.radius = call.args[1]
        /\ Len(call.value.tiles) = Len(tiles)
        /\ \A i \in TileIndices :
               InnerMatchesOuter(call.value.tiles[i], tiles[i], call.args[1], radius)

\* C14 witness: an inner sphere of positive radius made from a sphere with
\* pentagons and hexagons, some of them with resolved neighbors.
C14_Witness ==
    /\ call.op = "create_inner_sphere"
    /\ call.args[1] > 0
    /\ TilesOfSize(6) # {}
    /\ \E i \in TileIndices : tiles[i].neighbors # {}
    /\ \E i \in TileIndices : call.value.tiles[i].boundary # tiles[i].boundary

\* the lines of a kind in a text
LinesOf(lines, kind) == SelectSeq(lines, LAMBDA l : l.kind = kind)

\* face lines fl and vertex lines vl describe the tiles: a face line per tile
\* in tile order, an index per boundary point, each index that of the vertex
\* line of that point, and no two vertex lines of the same canonical string
ObjDescribesTiles(fl, vl) ==
    /\ Len(fl) = Len(tiles)
    /\ \A t \in TileIndices :
           /\ Len(fl[t].indices) = Len(tiles[t].boundary)
           /\ \A j \in 1..Len(tiles[t].boundary) :
                  /\ fl[t].indices[j] \in 1..Len(vl)
                  /\ PointToString(vl[fl[t].indices[j]].xyz)
                         = PointToString(tiles[t].boundary[j])
    /\ Cardinality({PointToString(vl[i].xyz) : i \in 1..Len(vl)}) = Len(vl)

\* C15: to_obj writes one face line per tile, in tile order, with an index
\* per boundary point; every index is between 1 and the number of vertex
\* lines, and two boundary points have the same index exactly when their
\* canonical strings are equal.
C15_ObjFaces ==
    (call.op = "to_obj" /\ call.outcome = "returned") =>
        ObjDescribesTiles(LinesOf(call.value, "f"), LinesOf(call.value, "v"))

\* C15 witness: to_obj has returned for a hexasphere with pentagons and
\* hexagons whose tiles share boundary points, so that there are fewer vertex
\* lines than boundary points.
C15_Witness ==
    /\ call.op = "to_obj"
    /\ call.outcome = "returned"
    /\ TilesOfSize(5) # {}
    /\ TilesOfSize(6) # {}
    /\ Len(LinesOf(call.value, "v")) < 5 * Len(tiles)

\* the mesh of a thick tile of n boundary points is laid out as outer centre,
\* outer boundary, inner centre, inner boundary
MeshLayout(mesh, thick, n) ==
    /\ Len(mesh.vertices) = 2 * n + 2
    /\ mesh.vertices[1] = thick.center_point
    /\ \A j \in 1..n : mesh.vertices[1 + j] = thick.outer_boundary[j]
    /\ \A j \in 1..n : mesh.vertices[n + 2 + j] = thick.inner_boundary[j]

\* the first n triangles are the fan of the outer face, (0, 1 + i, 1 + (i + 1) mod n)
MeshOuterFan(mesh, n) ==
    \A i \in 0..(n - 1) :
        SubSeq(mesh.indices, 3 * i + 1, 3 * i + 3) = <<0, 1 + i, 1 + ((i + 1) % n)>>

\* C16: generate_all_vertices lays the vertices out as outer centre, outer
\* boundary, inner centre, inner boundary; every outer-face triangle is
\* (0, 1 + i, 1 + ((i + 1) mod N)); every index is below the vertex count and
\* the number of indices is a multiple of 3.
C16_ThickTileMesh ==
    call.op = "generate_all_vertices" =>
        /\ MeshLayout(call.value, call.args[1], Len(call.args[1].outer_boundary))
        /\ Len(call.value.indices) % 3 = 0
        /\ \A k \in 1..Len(call.value.indices) :
               call.value.indices[k] \in 0..(Len(call.value.vertices) - 1)
        /\ MeshOuterFan(call.value, Len(call.args[1].outer_boundary))

\* both points are vertices of the face, and they are two of them
TwoVerticesOf(face, p1, p2) ==
    p1 # p2 /\ p1 \in RangeOf(face.points) /\ p2 \in RangeOf(face.points)

\* C17: find_third_point(p1, p2) returns the remaining vertex when p1 and p2
\* are two vertices of the face, and None whenever p1 and p2 are not both
\* vertices of the face.
C17_FindThirdPoint ==
    call.op = "find_third_point" =>
        /\ TwoVerticesOf(call.args[1], call.args[2], call.args[3]) =>
               /\ call.value # None
               /\ RangeOf(call.args[1].points) = {call.args[2], call.args[3], call.value[1]}
        /\ ~(call.args[2] \in RangeOf(call.args[1].points)
               /\ call.args[3] \in RangeOf(call.args[1].points)) =>
               call.value = None

\* a vector of n + 1 points that starts with first
StartsWith(result, first, n) == Len(result) = n + 1 /\ result[1] = first

\* C18: for every count n >= 0, subdivide_edge(p1, p2, n, pool) returns
\* exactly n + 1 points, the first equal to p1 and the last equal to p2, and
\* Point::subdivide(other, n) returns exactly n + 1 points starting with self.
C18_SubdivideLength ==
    /\ call.op = "subdivide_edge" =>
           /\ StartsWith(call.value.result, call.args[1], call.args[3])
           /\ call.value.result[Len(call.value.result)] = call.args[2]
    /\ call.op = "Point::subdivide" =>
           StartsWith(call.value, call.args[1], call.args[3])

\* C19: subdivide_face with depth 0 returns a list containing only the input
\* face, with the same id and the same three points, and leaves the point
\* pool and the face-id counter unchanged.
C19_DepthZero ==
    (call.op = "subdivide_face" /\ call.args[2] = 0) =>
        /\ call.value.faces = <<call.args[1]>>
        /\ call.value.points = call.args[3]
        /\ call.value.face_id = call.args[4]

\* a call with depth 0, an empty pool and a counter that is not 0 has returned
C19_Witness ==
    /\ call.op = "subdivide_face" /\ call.outcome = "returned"
    /\ call.args[2] = 0 /\ call.args[3] = <<>> /\ call.args[4] = Len(faces)
    /\ Len(call.value.faces) = 1

\* the cells of the triangular grid of n segments per edge, each the set of
\* its three grid positions <<row, column>>: for row i the i cells that point
\* to the first vertex and the i - 1 cells between them
GridCells(n) ==
    {{<<i - 1, j>>, <<i, j>>, <<i, j + 1>>} : i \in 1..n, j \in 0..(n - 1)}
        \cup {{<<i - 1, j - 1>>, <<i - 1, j>>, <<i, j>>} : i \in 1..n, j \in 1..n}

\* the cells inside the triangle
CellsOf(n) == {c \in GridCells(n) : \A g \in c : g[2] >= 0 /\ g[2] <= g[1]}

\* x is the coordinate of grid position g of the face, in units of Q, up
\* to the rounding of one Point::new: n * x = a * (n - i) + b * (i - j) + c * j
AtGrid(x, a, b, c, g, n) ==
    Abs(n * (x \div Q) - ((a \div Q) * (n - g[1]) + (b \div Q) * (g[1] - g[2])
                              + (c \div Q) * g[2])) <= n

PointAtGrid(p, face, g, n) ==
    \A d \in 1..3 : AtGrid(p[d], face.points[1][d], face.points[2][d], face.points[3][d], g, n)

\* the three points of sub are the three grid positions of the cell
FaceIsCell(sub, face, cell, n) ==
    /\ \A g \in cell : \E k \in 1..3 : PointAtGrid(sub.points[k], face, g, n)
    /\ \A k \in 1..3 : \E g \in cell : PointAtGrid(sub.points[k], face, g, n)

\* n * n faces, and every cell of the grid is one of them exactly once
TilesGrid(subs, face, n) ==
    /\ Len(subs) = n * n
    /\ \A cell \in CellsOf(n) :
           Cardinality({k \in 1..Len(subs) : FaceIsCell(subs[k], face, cell, n)}) = 1

Created == IF num_divisions = 0 THEN 0 ELSE Len(new_faces)

\* C21: over the subdivide_face calls of Hexasphere::new, which share one
\* counter, the counter never decreases and has advanced by exactly one for
\* every face created, each created face carrying the value the counter had;
\* so all resulting faces have pairwise distinct ids.
C21_FaceIds ==
    /\ face_id = Len(faces) + Created
    /\ num_divisions >= 1 =>
           \A k \in 1..Len(new_faces) : new_faces[k].id = Len(faces) + k - 1
    /\ \A k, m \in 1..Len(new_faces) : new_faces[k].id = new_faces[m].id => k = m

\* all 20 faces are subdivided at the largest depth
C21_Witness ==
    /\ pc = "project"
    /\ num_divisions = MaxDepth
    /\ Len(new_faces) = Len(faces) * MaxDepth * MaxDepth
    /\ face_id = Len(faces) + Len(new_faces)

C23_RawNeighbors ==
    \A i \in TileIndices :
        /\ TileToString(tiles[i]) \notin tiles[i].neighbor_ids
        /\ Cardinality(tiles[i].neighbor_ids) = Len(tiles[i].boundary)

\* the star of tile i as Hexasphere::new hands it to Tile::new: the faces
\* grouped under its centre, ordered by sort_faces_around_point
SortedStarOf(i) ==
    sort_faces_around_point(Vec([j \in 1..Len(StarOf(i)) |-> new_faces[StarOf(i)[j] + 1]]),
                            tiles[i].center_point)

\* every face of the sequence shares an edge with the next, the last with the first
CyclicallyAdjacent(star) ==
    \A j \in 1..Len(star) : is_adjacent_to(star[j], star[(j % Len(star)) + 1])

\* C24: after sort_faces_around_point has ordered a vertex star in
\* Hexasphere::new, every two cyclically consecutive faces of the star share
\* an edge; stated for the tile built last, which every tile once is.
C24_SortedStarAdjacent ==
    (pc \in {"tiles", "resolve"} /\ resolve_pos = 0 /\ Len(tiles) > 0) =>
        CyclicallyAdjacent(SortedStarOf(Len(tiles)))

\* how often face occurs in the slice
Occurrences(fs, face) == Cardinality({k \in 1..Len(fs) : fs[k] = face})

\* C25: sort_faces_around_point only permutes its input: the output has the
\* same length and contains every input face exactly as often as the input,
\* and a slice of 0, 1 or 2 faces is left in its original order.
C25_SortPermutes ==
    call.op = "sort_faces_around_point" =>
        /\ Len(call.value) = Len(call.args[1])
        /\ \A face \in RangeOf(call.args[1]) \cup RangeOf(call.value) :
               Occurrences(call.value, face) = Occurrences(call.args[1], face)
        /\ Len(call.args[1]) <= 2 => call.value = call.args[1]

\* a slice of five faces has been put into another order
C25_Witness ==
    /\ call.op = "sort_faces_around_point"
    /\ call.outcome = "returned"
    /\ Len(call.args[1]) = 5
    /\ call.value # call.args[1]

\* every tile is registered in the identity-to-index mapping
AllRegistered ==
    /\ Len(tiles) = Len(point_to_faces)
    /\ \A i \in TileIndices : TileToString(tiles[i]) \in DOMAIN tile_lookup

\* C26: construction is two-phase: while Hexasphere::new is building tiles
\* every tile's neighbors list is empty; a neighbor index is written only when
\* all tiles are built and registered; the resolution is one pass over the
\* complete collection, so a tile the pass has not reached has no neighbors.
C26_TwoPhase ==
    /\ pc \in {"subdivide", "project", "group"} => tiles = <<>>
    /\ pc = "tiles" => resolve_pos = 0
    /\ \A i \in TileIndices : i > resolve_pos => tiles[i].neighbors = {}
    /\ (\E i \in TileIndices : tiles[i].neighbors # {}) => AllRegistered
    /\ pc = "resolve" => AllRegistered

\* the pass has written indices into the first tile and not reached the last
C26_Witness ==
    /\ pc = "resolve"
    /\ resolve_pos >= 1 /\ resolve_pos < Len(tiles)
    /\ tiles[1].neighbors # {}
    /\ tiles[Len(tiles)].neighbors = {}
    /\ tiles[Len(tiles)].neighbor_ids \cap DOMAIN tile_lookup # {}

\* Point::new applied to the coordinates of p gives p, with the same string
Quantized(p) ==
    /\ PointNew(p[1], p[2], p[3]) = p
    /\ PointToString(PointNew(p[1], p[2], p[3])) = PointToString(p)

\* C27: every point held by a constructed Hexasphere, each tile's
\* center_point and each boundary point, is quantized to 3 decimals:
\* rebuilding it with Point::new yields an equal point with the same string.
C27_Quantized ==
    Returned =>
        \A i \in TileIndices :
            /\ Quantized(tiles[i].center_point)
            /\ \A j \in 1..Len(tiles[i].boundary) : Quantized(tiles[i].boundary[j])

\* C28: Point equality and hashing agree: for points obtained through
\* Point::new, segment and project, coordinates that round to negative zero
\* included, a == b implies that a and b have the same canonical string, and
\* so the same hash.
C28_EqImpliesSameString ==
    (call.op = "Point::eq" /\ call.value.eq) =>
        call.value.strings[1] = call.value.strings[2]

\* C29: the boundary orientation fixer changes nothing but the order of the
\* boundary: afterwards the boundary is the sequence Tile::new computed or
\* exactly its reversal, and center_point and neighbor_ids are untouched.
C29_FixerFrame ==
    call.op = "fix_boundary_orientation" =>
        /\ \/ call.value.boundary = call.args[1].boundary
           \/ call.value.boundary = Reverse(call.args[1].boundary)
        /\ call.value.center_point = call.args[1].center_point
        /\ call.value.neighbor_ids = call.args[1].neighbor_ids
        /\ call.value.neighbors = call.args[1].neighbors

\* the fixer has reversed a boundary of five points
C29_Witness ==
    /\ call.op = "fix_boundary_orientation"
    /\ call.outcome = "returned"
    /\ Len(call.args[1].boundary) = 5
    /\ call.value.boundary # call.args[1].boundary

\* the vertex stars face number k (counted from 0) has been appended to
StarsWith(k) == {e \in 1..Len(point_to_faces) : k \in RangeOf(point_to_faces[e].faces)}

\* the boundary points of all tiles, each named by its tile and position
BoundaryPoints ==
    UNION {{<<i, j>> : j \in 1..Len(tiles[i].boundary)} : i \in TileIndices}

\* C30: in Hexasphere::new every subdivided face is appended to exactly three
\* vertex stars, one per vertex and all three distinct, so the sum of all
\* tiles' boundary lengths is three times the number of subdivided faces.
C30_ThreeStarsPerFace ==
    Returned =>
        /\ \A k \in 0..(Len(new_faces) - 1) : Cardinality(StarsWith(k)) = 3
        /\ \A e \in 1..Len(point_to_faces) :
               \A a, b \in 1..Len(point_to_faces[e].faces) :
                   point_to_faces[e].faces[a] = point_to_faces[e].faces[b] => a = b
        /\ Cardinality(BoundaryPoints) = 3 * Len(new_faces)

=============================================================================
